---- MODULE Spec2Model ----
(***************************************************************************)
(* Model of the m3 write-path primitives:                                  *)
(*   - encoding/ostream.go: the bit-packed output stream (ostream);        *)
(*   - storage options (dbOptions): the copy-on-set configuration value.   *)
(*                                                                         *)
(* Go slices are modelled as (backing array, length) pairs over a heap of  *)
(* backing arrays, so that slices that share an array really alias.        *)
(* Streams are built with a nil bytesPool (the plain append branch of      *)
(* grow).  A uint64 is a tuple of 64 bits, most significant first, so that *)
(* shifts keep their 64-bit width.                                         *)
(***************************************************************************)
EXTENDS Integers, Sequences, FiniteSets, TLC

VARIABLES
    heap,       \* backing arrays: Seq of [cap, data]; data = the cells some slice has reached
    streams,    \* the ostream objects: Seq of [rawBuffer: [arr, len], pos]
    nops,       \* number of calls made so far (bounds the run)
    resetBuf,   \* history: per stream, the bytes handed to the last Reset / NewOStream
    written,    \* history: per stream, the bits the calls since then asked to write
    committed,  \* history: per stream, the committed bits as of the last Clone it took part in
    lastOp,     \* history: the last call [op, i, v, n]
    prev,       \* history: [heap, os] of the called stream right before the last call
    opts,       \* dbOptions objects allocated so far: Seq of records
    held,       \* the options pointers returned to the caller
    lastSet,    \* history: the last options call [op, recv, value, result]
    policy,     \* the options pointer the series buffer was built with (0: not built)
    cfg,        \* history: the values the series' options were configured with
    now,        \* the clock (minutes)
    blocks,     \* the series' blocks: block start -> [state, points, sealed, failures]
    buffered,   \* history: block start -> the points accepted for it, in order
    lastEv,     \* history: the last series event [op, t, start, accepted]
    prevBlocks  \* history: blocks right before the last series event

vars == <<heap, streams, nops, resetBuf, written, committed, lastOp, prev, opts, held, lastSet,
          policy, cfg, now, blocks, buffered, lastEv, prevBlocks>>
streamVars == <<heap, streams, resetBuf, written, committed, lastOp, prev>>
optVars == <<opts, held, lastSet>>
seriesVars == <<policy, cfg, now, blocks, buffered, lastEv, prevBlocks>>

----------------------------------------------------------------------------
(* Bounds *)

MaxOps == 4          \* calls in a run of the single-stream specification
MaxCloneOps == 5     \* calls in a run of the specification with Clone
MaxOptCalls == 3     \* calls in a run of the options specification
MaxSeriesOps == 6    \* events in a run of the series specification

(* Program constants *)

initAllocSize == 1024
WordBits == 64

\* storage option defaults; durations are in minutes
defaultBlockSize == 120
defaultBufferFuture == 2
defaultBufferPast == 10
defaultBufferDrain == 1
defaultRetentionPeriod == 2880
defaultBufferBucketAllocSize == 256
defaultDatabaseBlockAllocSize == 1024
defaultMaxFlushRetries == 3

----------------------------------------------------------------------------
(* Machine arithmetic *)

Pow2(k) == 2 ^ k

\* byte >> k  and  byte << k truncated to 8 bits
Shr8(v, k) == IF k >= 8 THEN 0 ELSE v \div Pow2(k)
Shl8(v, k) == IF k >= 8 THEN 0 ELSE (v * Pow2(k)) % 256

RECURSIVE Or8(_, _)
Or8(a, b) ==
    IF a = 0 THEN b
    ELSE IF b = 0 THEN a
    ELSE (IF a % 2 = 1 \/ b % 2 = 1 THEN 1 ELSE 0) + 2 * Or8(a \div 2, b \div 2)

\* uint(x): a negative int converts to a value >= 2^63, and any shift count
\* >= 64 clears a uint64, so every such count is represented by WordBits.
Uint(x) == IF x < 0 \/ x > WordBits THEN WordBits ELSE x

ZeroWord == [i \in 1..WordBits |-> 0]
\* uint64 << k
Shl64(w, k) == [i \in 1..WordBits |-> IF i + k <= WordBits THEN w[i + k] ELSE 0]
\* byte(v >> 56)
TopByte(w) == w[1] * 128 + w[2] * 64 + w[3] * 32 + w[4] * 16
              + w[5] * 8 + w[6] * 4 + w[7] * 2 + w[8]
\* Bit((v >> 63) & 1)
TopBit(w) == w[1]

----------------------------------------------------------------------------
(* Go slices over the heap *)

NilSlice == [arr |-> 0, len |-> 0]

Cap(h, s) == IF s.arr = 0 THEN 0 ELSE h[s.arr].cap
Bytes(h, s) == IF s.arr = 0 THEN <<>> ELSE SubSeq(h[s.arr].data, 1, s.len)

\* capacity of the array append allocates when the slice is full (the Go
\* runtime's growth for small byte slices: 8, then doubling)
GrowCap(c) == IF c = 0 THEN 8 ELSE 2 * c

Put(data, k, v) ==
    IF k <= Len(data) THEN [data EXCEPT ![k] = v] ELSE Append(data, v)

\* append(s, v): in place when there is spare capacity, else into a new array
append(h, s, v) ==
    IF s.len < Cap(h, s)
    THEN [heap |-> [h EXCEPT ![s.arr].data = Put(@, s.len + 1, v)],
          slice |-> [s EXCEPT !.len = @ + 1]]
    ELSE [heap |-> Append(h, [cap |-> GrowCap(Cap(h, s)),
                              data |-> Append(Bytes(h, s), v)]),
          slice |-> [arr |-> Len(h) + 1, len |-> s.len + 1]]

----------------------------------------------------------------------------
(* ostream: m is [heap, os], the heap and the receiver *)

Length(m) == m.os.rawBuffer.len

Empty(m) == Length(m) = 0 /\ m.os.pos = 0

lastIndex(m) == Length(m) - 1

hasUnusedBits(m) == m.os.pos > 0 /\ m.os.pos < 8

\* grow variant: pos wraps to 0 when the byte is full
grow_posWraps(m, v, np) ==
    LET r == append(m.heap, m.os.rawBuffer, v)
    IN  [heap |-> r.heap, os |-> [rawBuffer |-> r.slice, pos |-> np % 8]]

grow(m, v, np) ==
    LET r == append(m.heap, m.os.rawBuffer, v)
    IN  [heap |-> r.heap, os |-> [rawBuffer |-> r.slice, pos |-> np]]

\* fillUnused variants: shift off by one; no shift
fillUnused_shiftOffByOne(m, v) ==
    LET a == m.os.rawBuffer.arr
        k == lastIndex(m) + 1
    IN  [m EXCEPT !.heap[a].data[k] = Or8(@, Shr8(v, m.os.pos + 1))]

fillUnused_noShift(m, v) ==
    LET a == m.os.rawBuffer.arr
        k == lastIndex(m) + 1
    IN  [m EXCEPT !.heap[a].data[k] = Or8(@, v)]

\* fillUnused variant: stores instead of OR-ing
fillUnused_assign(m, v) ==
    LET a == m.os.rawBuffer.arr
        k == lastIndex(m) + 1
    IN  [m EXCEPT !.heap[a].data[k] = Shr8(v, m.os.pos)]

fillUnused(m, v) ==
    LET a == m.os.rawBuffer.arr
        k == lastIndex(m) + 1
    IN  [m EXCEPT !.heap[a].data[k] = Or8(@, Shr8(v, m.os.pos))]

\* WriteBit variants: shift by 6; any non-zero argument written as 1
WriteBit_shiftSix(m, v) ==
    LET b == Shl8(v, 6)
    IN  IF ~hasUnusedBits(m)
        THEN grow(m, b, 1)
        ELSE LET f == fillUnused(m, b)
             IN  [f EXCEPT !.os.pos = @ + 1]

WriteBit_nonZeroIsOne(m, v) ==
    LET b == IF v # 0 THEN 128 ELSE 0
    IN  IF ~hasUnusedBits(m)
        THEN grow(m, b, 1)
        ELSE LET f == fillUnused(m, b)
             IN  [f EXCEPT !.os.pos = @ + 1]

WriteBit(m, v) ==
    LET b == Shl8(v, 7)
    IN  IF ~hasUnusedBits(m)
        THEN grow(m, b, 1)
        ELSE LET f == fillUnused(m, b)
             IN  [f EXCEPT !.os.pos = @ + 1]

\* WriteByte variant: the head of the new byte shifted by pos instead of 8-pos
WriteByte_wrongShift(m, v) ==
    IF ~hasUnusedBits(m)
    THEN grow(m, v, 8)
    ELSE LET f == fillUnused(m, v)
         IN  grow(f, Shl8(v, f.os.pos), f.os.pos)

\* WriteByte variants: pos set to 8 after a split; the new byte holds v whole
WriteByte_posFull(m, v) ==
    IF ~hasUnusedBits(m)
    THEN grow(m, v, 8)
    ELSE LET f == fillUnused(m, v)
         IN  grow(f, Shl8(v, 8 - f.os.pos), 8)

WriteByte_noSplit(m, v) ==
    IF ~hasUnusedBits(m)
    THEN grow(m, v, 8)
    ELSE LET f == fillUnused(m, v)
         IN  grow(f, v, f.os.pos)

WriteByte(m, v) ==
    IF ~hasUnusedBits(m)
    THEN grow(m, v, 8)
    ELSE LET f == fillUnused(m, v)
         IN  grow(f, Shl8(v, 8 - f.os.pos), f.os.pos)

RECURSIVE WriteBytes(_, _)
WriteBytes(m, bytes) ==
    IF bytes = <<>> THEN m
    ELSE WriteBytes(WriteByte(m, Head(bytes)), Tail(bytes))

RECURSIVE bitLoop(_, _, _)
bitLoop(m, v, numBits) ==
    IF numBits > 0
    THEN bitLoop(WriteBit(m, TopBit(v)), Shl64(v, 1), numBits - 1)
    ELSE m

RECURSIVE byteLoop(_, _, _)
byteLoop(m, v, numBits) ==
    IF numBits >= 8
    THEN byteLoop(WriteByte(m, TopByte(v)), Shl64(v, 8), numBits - 8)
    ELSE bitLoop(m, v, numBits)

\* WriteBits variants: no clamp to 64; no early return and a tail loop that
\* tests after writing
WriteBits_noClamp(m, v, numBits) ==
    IF numBits = 0 THEN m
    ELSE byteLoop(m, Shl64(v, Uint(64 - numBits)), numBits)

WriteBits_tailTestsLate(m, v, numBits) ==
    LET n == IF numBits > 64 THEN 64 ELSE numBits
        w == Shl64(v, Uint(64 - n))
    IN  IF n < 0 THEN m
        ELSE LET r == byteLoop(m, w, n - (n % 8))
             IN  bitLoop(r, Shl64(w, n - (n % 8)), IF n % 8 = 0 THEN 1 ELSE n % 8)

\* WriteBits variant: the bit count taken as unsigned
WriteBits_unsignedCount(m, v, numBits) ==
    IF numBits = 0 THEN m
    ELSE LET n == IF numBits > 64 \/ numBits < 0 THEN 64 ELSE numBits
         IN  byteLoop(m, Shl64(v, Uint(64 - n)), n)

WriteBits(m, v, numBits) ==
    IF numBits = 0 THEN m
    ELSE LET n == IF numBits > 64 THEN 64 ELSE numBits
         IN  byteLoop(m, Shl64(v, Uint(64 - n)), n)

\* Reset variants: pos left at 0; pos always 8
Reset_posLeftZero(m, buffer) ==
    [m EXCEPT !.os.rawBuffer = buffer, !.os.pos = 0]

Reset_posAlwaysFull(m, buffer) ==
    [m EXCEPT !.os.rawBuffer = buffer, !.os.pos = 8]

Reset(m, buffer) ==
    [m EXCEPT !.os.rawBuffer = buffer,
              !.os.pos = IF buffer.len > 0 THEN 8 ELSE 0]

\* NewOStream(bytes, initAllocIfEmpty, nil)
NewOStream(h, bytes, initAllocIfEmpty) ==
    LET alloc == Cap(h, bytes) = 0 /\ initAllocIfEmpty
        h1 == IF alloc THEN Append(h, [cap |-> initAllocSize, data |-> <<>>]) ELSE h
        b1 == IF alloc THEN [arr |-> Len(h1), len |-> 0] ELSE bytes
    IN  Reset([heap |-> h1, os |-> [rawBuffer |-> NilSlice, pos |-> 0]], b1)

Clone(os) == [rawBuffer |-> os.rawBuffer, pos |-> os.pos]

Rawbytes(m) == <<Bytes(m.heap, m.os.rawBuffer), m.os.pos>>

----------------------------------------------------------------------------
(* dbOptions: h is the heap of option objects, recv the receiver's pointer. *)
(* Functions, pools and other collaborators are opaque tokens.              *)

\* opts := &dbOptions{...} in NewDatabaseOptions
dbOptions ==
    [logger |-> "logging.SimpleLogger", scope |-> "metrics.NoopScope",
     blockSize |-> defaultBlockSize, newEncoderFn |-> "nil", newDecoderFn |-> "nil",
     nowFn |-> "time.Now", bufferFuture |-> defaultBufferFuture,
     bufferPast |-> defaultBufferPast, bufferDrain |-> defaultBufferDrain,
     bufferBucketAllocSize |-> 0, databaseBlockAllocSize |-> 0,
     retentionPeriod |-> defaultRetentionPeriod, newBootstrapFn |-> "nil",
     bytesPool |-> "nil", contextPool |-> "nil", databaseBlockPool |-> "nil",
     encoderPool |-> "nil", singleReaderIteratorPool |-> "nil",
     multiReaderIteratorPool |-> "nil", maxFlushRetries |-> defaultMaxFlushRetries,
     filePathPrefix |-> "os.TempDir()", newFileSetWriterFn |-> "fs.NewWriter"]

EncodingTszPooled(h, recv, bufferBucketAllocSize, databaseBlockAllocSize) ==
    Append(h, [h[recv] EXCEPT !.bufferBucketAllocSize = bufferBucketAllocSize,
                              !.databaseBlockAllocSize = databaseBlockAllocSize,
                              !.bytesPool = "pool.BytesPool",
                              !.contextPool = "pool.ContextPool",
                              !.databaseBlockPool = "pool.DatabaseBlockPool",
                              !.encoderPool = "pool.EncoderPool",
                              !.singleReaderIteratorPool = "pool.SingleReaderIteratorPool",
                              !.multiReaderIteratorPool = "pool.MultiReaderIteratorPool",
                              !.newEncoderFn = "tsz.NewEncoder",
                              !.newDecoderFn = "tsz.NewDecoder"])

\* the returned pointer is the last object of the resulting heap
NewDatabaseOptions(h) ==
    LET h1 == Append(h, dbOptions)
    IN  EncodingTszPooled(h1, Len(h1), defaultBufferBucketAllocSize,
                          defaultDatabaseBlockAllocSize)

BlockSize(h, recv, value) == Append(h, [h[recv] EXCEPT !.blockSize = value])
GetBlockSize(o) == o.blockSize

BufferFuture(h, recv, value) == Append(h, [h[recv] EXCEPT !.bufferFuture = value])
GetBufferFuture(o) == o.bufferFuture

\* BufferPast variant: sets the field through the receiver, then copies
BufferPast_inPlace(h, recv, value) ==
    LET h1 == [h EXCEPT ![recv].bufferPast = value]
    IN  Append(h1, h1[recv])

BufferPast(h, recv, value) == Append(h, [h[recv] EXCEPT !.bufferPast = value])
\* GetBufferPast variant: returns the neighbouring field
GetBufferPast_returnsFuture(o) == o.bufferFuture

GetBufferPast(o) == o.bufferPast

BufferDrain(h, recv, value) == Append(h, [h[recv] EXCEPT !.bufferDrain = value])
GetBufferDrain(o) == o.bufferDrain

BufferBucketAllocSize(h, recv, value) ==
    Append(h, [h[recv] EXCEPT !.bufferBucketAllocSize = value])
GetBufferBucketAllocSize(o) == o.bufferBucketAllocSize

DatabaseBlockAllocSize(h, recv, value) ==
    Append(h, [h[recv] EXCEPT !.databaseBlockAllocSize = value])
GetDatabaseBlockAllocSize(o) == o.databaseBlockAllocSize

RetentionPeriod(h, recv, value) == Append(h, [h[recv] EXCEPT !.retentionPeriod = value])
\* GetRetentionPeriod variant: returns the block size
GetRetentionPeriod_returnsBlockSize(o) == o.blockSize

GetRetentionPeriod(o) == o.retentionPeriod

MaxFlushRetries(h, recv, value) == Append(h, [h[recv] EXCEPT !.maxFlushRetries = value])
\* GetMaxFlushRetries variant: returns an alloc size
GetMaxFlushRetries_returnsAllocSize(o) == o.bufferBucketAllocSize

GetMaxFlushRetries(o) == o.maxFlushRetries

----------------------------------------------------------------------------
(* The series buffer: acceptance window, drain with retries, eviction.     *)
(* o is the dbOptions value the series was built with, bl its blocks.      *)

NewBlock ==
    [state |-> "open", points |-> <<>>, sealed |-> <<>>, failures |-> 0, read |-> FALSE]

\* floor(t, blockSize)
BlockStart(o, t) == t - (t % GetBlockSize(o))

Accepts(o, t, nw) == t >= nw - GetBufferPast(o) /\ t <= nw + GetBufferFuture(o)

\* append: a rejected point changes nothing, an accepted one is buffered
\* under its block, created open when missing
WritePoint(o, bl, t, nw) ==
    IF ~Accepts(o, t, nw) THEN bl
    ELSE LET st == BlockStart(o, t)
             b == IF st \in DOMAIN bl THEN bl[st] ELSE NewBlock
         IN  [x \in DOMAIN bl \cup {st} |->
                 IF x = st THEN [b EXCEPT !.points = Append(@, t)] ELSE bl[x]]

\* a drain that succeeded: the buffered points become a sealed layer
DrainSucceeded(bl, st) ==
    [bl EXCEPT ![st] = [@ EXCEPT !.state = "sealed", !.points = <<>>,
                                 !.sealed = Append(bl[st].sealed, bl[st].points),
                                 !.failures = 0]]

\* a drain attempt that failed: its output is dropped, the attempt counted;
\* after maxFlushRetries attempts the count starts again with the next cycle
DrainFailed(o, bl, st) ==
    [bl EXCEPT ![st].failures = IF @ < GetMaxFlushRetries(o) THEN @ + 1 ELSE 1]

\* a sealed block is read from memory
ReadBlock(bl, st) == [bl EXCEPT ![st].read = TRUE]

Evictable(o, bl, st, nw) ==
    bl[st].state = "sealed" /\ nw - st > GetRetentionPeriod(o)

Sweep(o, bl, nw) ==
    [x \in {st \in DOMAIN bl : ~Evictable(o, bl, st, nw)} |-> bl[x]]

----------------------------------------------------------------------------
(* Reading a stream back: the bits of the raw bytes, MSB first *)

BitsOfByte(b) == [k \in 1..8 |-> (b \div Pow2(8 - k)) % 2]

RECURSIVE BitsOf(_)
BitsOf(bs) == IF bs = <<>> THEN <<>> ELSE BitsOfByte(Head(bs)) \o BitsOf(Tail(bs))

Take(s, n) == SubSeq(s, 1, n)

RawBits(m) == BitsOf(Rawbytes(m)[1])
CommittedLen(m) == 8 * (Length(m) - 1) + Rawbytes(m)[2]
VisibleBits(m) == Take(RawBits(m), CommittedLen(m))

\* the bits a WriteBits(v, n) call is to write: the lowest n bits of v
LowBits(v, n) ==
    IF n <= 0 THEN <<>>
    ELSE IF n >= WordBits THEN v
    ELSE SubSeq(v, WordBits - n + 1, WordBits)

----------------------------------------------------------------------------
(* Inputs *)

W1 == [i \in 1..WordBits |-> IF i % 3 = 1 THEN 1 ELSE 0]
W2 == [i \in 1..WordBits |-> IF i % 5 \in {0, 2} \/ i > 61 THEN 1 ELSE 0]

BitArgs == {0, 1, 2, 3}
ByteArgs == {165, 255}
ByteSlices == {<<>>, <<165, 60>>}
WriteBitsArgs == {<<W1, -1>>, <<W1, 0>>, <<W2, 3>>, <<W1, 7>>, <<W2, 8>>,
                  <<W1, 13>>, <<W1, 64>>, <<W2, 64>>, <<W1, 65>>, <<W2, 70>>, <<W2, -8>>}
\* caller-supplied byte slices: [cap, data]; cap = 0 is the nil slice
Buffers == {[cap |-> 0, data |-> <<>>], [cap |-> 1, data |-> <<90>>],
            [cap |-> 4, data |-> <<90, 195>>]}
NewArgs == {<<[cap |-> 0, data |-> <<>>], FALSE>>, <<[cap |-> 0, data |-> <<>>], TRUE>>,
            <<[cap |-> 1, data |-> <<90>>], TRUE>>, <<[cap |-> 4, data |-> <<90, 195>>], FALSE>>}

\* the caller's slice, allocated on the heap
WithBuffer(h, b) ==
    IF b.cap = 0 THEN [heap |-> h, slice |-> NilSlice]
    ELSE [heap |-> Append(h, b), slice |-> [arr |-> Len(h) + 1, len |-> Len(b.data)]]

----------------------------------------------------------------------------
(* State machine of the streams *)

NoOp == [op |-> "none", i |-> 0, v |-> 0, n |-> 0]
NoSet == [op |-> "none", recv |-> 0, value |-> 0, result |-> 0]
NoStream == [rawBuffer |-> NilSlice, pos |-> 0]
NoEvent == [op |-> "none", t |-> 0, start |-> 0, accepted |-> FALSE]
\* the storage defaults, as a configuration
DefaultConfig ==
    [blockSize |-> defaultBlockSize, bufferPast |-> defaultBufferPast,
     bufferFuture |-> defaultBufferFuture, bufferDrain |-> defaultBufferDrain,
     retentionPeriod |-> defaultRetentionPeriod,
     maxFlushRetries |-> defaultMaxFlushRetries]

Init ==
    /\ heap = <<>>
    /\ streams = <<>>
    /\ nops = 0
    /\ resetBuf = <<>>
    /\ written = <<>>
    /\ committed = <<>>
    /\ lastOp = NoOp
    /\ prev = [heap |-> <<>>, os |-> NoStream]
    /\ opts = <<>>
    /\ held = {}
    /\ lastSet = NoSet
    /\ policy = 0
    /\ cfg = DefaultConfig
    /\ now = 0
    /\ blocks = <<>>
    /\ buffered = <<>>
    /\ lastEv = NoEvent
    /\ prevBlocks = <<>>

Mach(i) == [heap |-> heap, os |-> streams[i]]

\* stream i becomes r.os over heap r.heap, having been asked to write bits
Wrote(i, r, op, bits) ==
    /\ heap' = r.heap
    /\ streams' = [streams EXCEPT ![i] = r.os]
    /\ written' = [written EXCEPT ![i] = @ \o bits]
    /\ lastOp' = op
    /\ prev' = Mach(i)
    /\ nops' = nops + 1
    /\ UNCHANGED <<resetBuf, committed, optVars, seriesVars>>

DoNewOStream(b, initAllocIfEmpty) ==
    LET c == WithBuffer(heap, b)
        r == NewOStream(c.heap, c.slice, initAllocIfEmpty)
    IN  /\ heap' = r.heap
        /\ streams' = Append(streams, r.os)
        /\ resetBuf' = Append(resetBuf, b.data)
        /\ written' = Append(written, <<>>)
        /\ committed' = Append(committed, <<>>)
        /\ lastOp' = [op |-> "NewOStream", i |-> Len(streams) + 1, v |-> b.data, n |-> 0]
        /\ prev' = [heap |-> heap, os |-> NoStream]
        /\ nops' = nops + 1
        /\ UNCHANGED <<optVars, seriesVars>>

DoReset(i, b) ==
    LET c == WithBuffer(heap, b)
        r == Reset([heap |-> c.heap, os |-> streams[i]], c.slice)
    IN  /\ heap' = r.heap
        /\ streams' = [streams EXCEPT ![i] = r.os]
        /\ resetBuf' = [resetBuf EXCEPT ![i] = b.data]
        /\ written' = [written EXCEPT ![i] = <<>>]
        /\ committed' = [committed EXCEPT ![i] = <<>>]
        /\ lastOp' = [op |-> "Reset", i |-> i, v |-> b.data, n |-> 0]
        /\ prev' = Mach(i)
        /\ nops' = nops + 1
        /\ UNCHANGED <<optVars, seriesVars>>

DoWriteBit(i, v) ==
    Wrote(i, WriteBit(Mach(i), v), [op |-> "WriteBit", i |-> i, v |-> v, n |-> 0],
          <<v % 2>>)

DoWriteByte(i, v) ==
    Wrote(i, WriteByte(Mach(i), v), [op |-> "WriteByte", i |-> i, v |-> v, n |-> 0],
          BitsOfByte(v))

DoWriteBytes(i, bytes) ==
    Wrote(i, WriteBytes(Mach(i), bytes), [op |-> "WriteBytes", i |-> i, v |-> bytes, n |-> 0],
          BitsOf(bytes))

DoWriteBits(i, v, numBits) ==
    Wrote(i, WriteBits(Mach(i), v, numBits),
          [op |-> "WriteBits", i |-> i, v |-> v, n |-> numBits], LowBits(v, numBits))

DoClone(i) ==
    /\ streams' = Append(streams, Clone(streams[i]))
    /\ resetBuf' = Append(resetBuf, resetBuf[i])
    /\ written' = Append(written, written[i])
    /\ committed' = Append([committed EXCEPT ![i] = VisibleBits(Mach(i))],
                           VisibleBits(Mach(i)))
    /\ lastOp' = [op |-> "Clone", i |-> i, v |-> 0, n |-> 0]
    /\ prev' = Mach(i)
    /\ nops' = nops + 1
    /\ UNCHANGED <<heap, optVars, seriesVars>>

(* One stream, never cloned *)

Live == nops < MaxOps /\ streams # <<>>

NewOStreamCall ==
    nops < MaxOps /\ streams = <<>> /\ \E a \in NewArgs : DoNewOStream(a[1], a[2])
ResetCall == Live /\ \E b \in Buffers : DoReset(1, b)
WriteBitCall == Live /\ \E v \in BitArgs : DoWriteBit(1, v)
WriteByteCall == Live /\ \E v \in ByteArgs : DoWriteByte(1, v)
WriteBytesCall == Live /\ \E bs \in ByteSlices : DoWriteBytes(1, bs)
WriteBitsCall == Live /\ \E a \in WriteBitsArgs : DoWriteBits(1, a[1], a[2])

Next ==
    \/ NewOStreamCall
    \/ ResetCall
    \/ WriteBitCall
    \/ WriteByteCall
    \/ WriteBytesCall
    \/ WriteBitsCall

Spec == Init /\ [][Next]_vars

(* A stream and its clone (one Clone call), each written independently *)

CloneBitArgs == {0, 1}
CloneByteArgs == {165}
CloneByteSlices == {<<60>>}
CloneWriteBitsArgs == {<<W2, 3>>}
CloneBuffers == {[cap |-> 4, data |-> <<90>>]}
CloneNewArgs == {<<[cap |-> 0, data |-> <<>>], FALSE>>, <<[cap |-> 0, data |-> <<>>], TRUE>>,
                 <<[cap |-> 4, data |-> <<90>>], FALSE>>}

CloneLive == nops < MaxCloneOps /\ streams # <<>>

CNewOStream ==
    nops < MaxCloneOps /\ streams = <<>> /\ \E a \in CloneNewArgs : DoNewOStream(a[1], a[2])
CClone == CloneLive /\ Len(streams) = 1 /\ DoClone(1)
CReset == CloneLive /\ \E i \in DOMAIN streams, b \in CloneBuffers : DoReset(i, b)
CWriteBit == CloneLive /\ \E i \in DOMAIN streams, v \in CloneBitArgs : DoWriteBit(i, v)
CWriteByte == CloneLive /\ \E i \in DOMAIN streams, v \in CloneByteArgs : DoWriteByte(i, v)
CWriteBytes ==
    CloneLive /\ \E i \in DOMAIN streams, bs \in CloneByteSlices : DoWriteBytes(i, bs)
CWriteBits ==
    CloneLive /\ \E i \in DOMAIN streams, a \in CloneWriteBitsArgs : DoWriteBits(i, a[1], a[2])

NextClone ==
    \/ CNewOStream
    \/ CClone
    \/ CReset
    \/ CWriteBit
    \/ CWriteByte
    \/ CWriteBytes
    \/ CWriteBits

SpecClone == Init /\ [][NextClone]_vars

----------------------------------------------------------------------------
(* State machine of the options *)

DurationArgs == {0, 5, 150}
IntArgs == {0, 7}

\* a call on receiver recv has left the heap h1 and returned its last object
Returned(h1, op, recv, value) ==
    /\ opts' = h1
    /\ held' = held \cup {Len(h1)}
    /\ lastSet' = [op |-> op, recv |-> recv, value |-> value, result |-> Len(h1)]
    /\ nops' = nops + 1
    /\ UNCHANGED <<streamVars, seriesVars>>

OptLive == nops < MaxOptCalls

NewDatabaseOptionsCall ==
    OptLive /\ Returned(NewDatabaseOptions(opts), "NewDatabaseOptions", 0, 0)
BlockSizeCall ==
    OptLive /\ \E recv \in held, value \in DurationArgs :
        Returned(BlockSize(opts, recv, value), "BlockSize", recv, value)
BufferFutureCall ==
    OptLive /\ \E recv \in held, value \in DurationArgs :
        Returned(BufferFuture(opts, recv, value), "BufferFuture", recv, value)
BufferPastCall ==
    OptLive /\ \E recv \in held, value \in DurationArgs :
        Returned(BufferPast(opts, recv, value), "BufferPast", recv, value)
BufferDrainCall ==
    OptLive /\ \E recv \in held, value \in DurationArgs :
        Returned(BufferDrain(opts, recv, value), "BufferDrain", recv, value)
RetentionPeriodCall ==
    OptLive /\ \E recv \in held, value \in DurationArgs :
        Returned(RetentionPeriod(opts, recv, value), "RetentionPeriod", recv, value)
MaxFlushRetriesCall ==
    OptLive /\ \E recv \in held, value \in IntArgs :
        Returned(MaxFlushRetries(opts, recv, value), "MaxFlushRetries", recv, value)
BufferBucketAllocSizeCall ==
    OptLive /\ \E recv \in held, value \in IntArgs :
        Returned(BufferBucketAllocSize(opts, recv, value), "BufferBucketAllocSize", recv, value)
DatabaseBlockAllocSizeCall ==
    OptLive /\ \E recv \in held, value \in IntArgs :
        Returned(DatabaseBlockAllocSize(opts, recv, value), "DatabaseBlockAllocSize", recv, value)

NextOpts ==
    \/ NewDatabaseOptionsCall
    \/ BlockSizeCall
    \/ BufferFutureCall
    \/ BufferPastCall
    \/ BufferDrainCall
    \/ RetentionPeriodCall
    \/ MaxFlushRetriesCall
    \/ BufferBucketAllocSizeCall
    \/ DatabaseBlockAllocSizeCall

SpecOpts == Init /\ [][NextOpts]_vars

----------------------------------------------------------------------------
(* State machine of the series buffer *)

\* options as configured: the defaults, or every duration and the retries set
SmallConfig ==
    [blockSize |-> 4, bufferPast |-> 3, bufferFuture |-> 1, bufferDrain |-> 1,
     retentionPeriod |-> 6, maxFlushRetries |-> 2]
SeriesConfigs == {DefaultConfig, SmallConfig}

\* NewDatabaseOptions().BlockSize(..).BufferPast(..)...; the defaults take no setter
Configure(h, c) ==
    LET h0 == NewDatabaseOptions(h)
        h1 == BlockSize(h0, Len(h0), c.blockSize)
        h2 == BufferPast(h1, Len(h1), c.bufferPast)
        h3 == BufferFuture(h2, Len(h2), c.bufferFuture)
        h4 == BufferDrain(h3, Len(h3), c.bufferDrain)
        h5 == RetentionPeriod(h4, Len(h4), c.retentionPeriod)
    IN  IF c = DefaultConfig THEN h0
        ELSE MaxFlushRetries(h5, Len(h5), c.maxFlushRetries)

Policy == opts[policy]
SeriesLive == nops < MaxSeriesOps /\ policy # 0

Event(op, t, st, acc) ==
    /\ lastEv' = [op |-> op, t |-> t, start |-> st, accepted |-> acc]
    /\ prevBlocks' = blocks
    /\ nops' = nops + 1
    /\ UNCHANGED <<streamVars, optVars, policy, cfg>>

OpenSeries ==
    /\ nops < MaxSeriesOps /\ policy = 0
    /\ \E c \in SeriesConfigs :
        /\ opts' = Configure(opts, c)
        /\ held' = held \cup {Len(opts')}
        /\ policy' = Len(opts')
        /\ cfg' = c
    /\ lastEv' = [op |-> "Open", t |-> 0, start |-> 0, accepted |-> FALSE]
    /\ prevBlocks' = blocks
    /\ nops' = nops + 1
    /\ UNCHANGED <<streamVars, lastSet, now, blocks, buffered>>

\* the clock moves on
Tick ==
    /\ SeriesLive
    /\ \E d \in {1, cfg.retentionPeriod} : now' = now + d
    /\ Event("Tick", 0, 0, FALSE)
    /\ UNCHANGED <<blocks, buffered>>

\* a point arrives: at now, on and one past either edge of the window
WriteCall ==
    /\ SeriesLive
    /\ \E t \in {now - cfg.bufferPast - 1, now - cfg.bufferPast, now,
                 now + cfg.bufferFuture, now + cfg.bufferFuture + 1} :
        LET acc == Accepts(Policy, t, now)
            st == BlockStart(Policy, t)
        IN  /\ blocks' = WritePoint(Policy, blocks, t, now)
            /\ buffered' =
                   IF acc
                   THEN [x \in DOMAIN buffered \cup {st} |->
                            IF x = st
                            THEN Append(IF st \in DOMAIN buffered
                                        THEN buffered[st] ELSE <<>>, t)
                            ELSE buffered[x]]
                   ELSE buffered
            /\ Event("Write", t, st, acc)
    /\ UNCHANGED now

DrainOk ==
    /\ SeriesLive
    /\ \E st \in DOMAIN blocks :
        /\ blocks[st].points # <<>>
        /\ blocks' = DrainSucceeded(blocks, st)
        /\ Event("DrainOk", 0, st, FALSE)
    /\ UNCHANGED <<now, buffered>>

DrainFail ==
    /\ SeriesLive
    /\ \E st \in DOMAIN blocks :
        /\ blocks[st].points # <<>>
        /\ blocks' = DrainFailed(Policy, blocks, st)
        /\ Event("DrainFail", 0, st, FALSE)
    /\ UNCHANGED <<now, buffered>>

ReadCall ==
    /\ SeriesLive
    /\ \E st \in DOMAIN blocks :
        /\ blocks[st].state = "sealed" /\ ~blocks[st].read
        /\ blocks' = ReadBlock(blocks, st)
        /\ Event("Read", 0, st, FALSE)
    /\ UNCHANGED <<now, buffered>>

SweepCall ==
    /\ SeriesLive
    /\ blocks' = Sweep(Policy, blocks, now)
    /\ buffered' = [x \in DOMAIN buffered \cap DOMAIN blocks' |-> buffered[x]]
    /\ Event("Sweep", 0, 0, FALSE)
    /\ UNCHANGED now

NextSeries ==
    \/ OpenSeries
    \/ Tick
    \/ WriteCall
    \/ DrainOk
    \/ DrainFail
    \/ ReadCall
    \/ SweepCall

SpecSeries == Init /\ [][NextSeries]_vars

----------------------------------------------------------------------------
(* Properties of the stream *)

Cur == Mach(lastOp.i)
Expected(i) == BitsOf(resetBuf[i]) \o written[i]

\* C1: started empty, the bits read back from the raw buffer (MSB first,
\* truncated to 8*(Len-1)+pos) are exactly the bits the WriteBit, WriteByte,
\* WriteBytes and WriteBits calls wrote, in call order.
C1_BitsRoundTrip ==
    \A i \in DOMAIN streams :
        resetBuf[i] = <<>> => VisibleBits(Mach(i)) = written[i]

\* a WriteBits call that started and ended inside a byte and crossed two boundaries
C1_Witness ==
    /\ lastOp.op = "WriteBits" /\ lastOp.n = 13
    /\ resetBuf[1] = <<>>
    /\ prev.os.pos \in 1..7 /\ streams[1].pos \in 1..7
    /\ Len(written[1]) > 16

\* C2: after Clone, each stream reads back the bits it held at clone time
\* followed by exactly the bits written to that same stream.
C2_CloneIndependent ==
    \A i \in DOMAIN streams : VisibleBits(Mach(i)) = Expected(i)

\* C3: writes to the original and to the clone never change, in either copy,
\* a bit that was committed when Clone was called.
C3_CommittedBitsKept ==
    \A i \in DOMAIN streams :
        Take(RawBits(Mach(i)), Len(committed[i])) = committed[i]

\* the two copies share an array, one has overwritten what the other reads,
\* and bits were committed (a partial byte among them) at clone time
C3_Witness ==
    /\ Len(streams) = 2
    /\ streams[1].rawBuffer.arr = streams[2].rawBuffer.arr
    /\ Len(committed[1]) % 8 # 0
    /\ \E i \in DOMAIN streams : VisibleBits(Mach(i)) # Expected(i)

RECURSIVE WriteBitByBit(_, _, _)
WriteBitByBit(m, v, k) ==
    IF k = 0 THEN m
    ELSE WriteBitByBit(WriteBit(m, (v \div Pow2(k - 1)) % 2), v, k - 1)

\* C4: WriteByte(v) leaves the stream as eight WriteBit calls with the bits of
\* v, most significant first, would: same bytes, same Len, same pos.
C4_ByteAsEightBits ==
    lastOp.op = "WriteByte" =>
        LET e == WriteBitByBit(prev, lastOp.v, 8)
        IN  /\ Rawbytes(Cur) = Rawbytes(e)
            /\ Length(Cur) = Length(e)
            /\ VisibleBits(Cur) = VisibleBits(e)

\* WriteByte(0xA5) with three bits of the last byte in use
C4_Witness ==
    /\ lastOp.op = "WriteByte" /\ lastOp.v = 165
    /\ prev.os.pos = 3
    /\ Length(Cur) = Length(prev) + 1

\* C5: after Reset (or NewOStream) with a non-empty buffer pos is 8, every
\* later write lands in appended bytes and the supplied bytes stay as they
\* were; with an empty buffer pos is 0 and the stream is Empty.
C5_ResetKeepsInput ==
    \A i \in DOMAIN streams :
        LET m == Mach(i)
            b == resetBuf[i]
        IN  /\ Take(Rawbytes(m)[1], Len(b)) = b
            /\ written[i] = <<>> =>
                   /\ Rawbytes(m) = <<b, IF b = <<>> THEN 0 ELSE 8>>
                   /\ (b = <<>> => Empty(m))
            /\ b # <<>> => Length(m) = Len(b) + (Len(written[i]) + 7) \div 8

\* a bit, then more, written after Reset with a two-byte buffer
C5_Witness ==
    /\ streams # <<>>
    /\ resetBuf[1] = <<90, 195>>
    /\ lastOp.op \in {"WriteBit", "WriteBits"}
    /\ Len(written[1]) > 8
    /\ \E k \in 1..Len(heap) : heap[k].data = <<90, 195>> /\ k # streams[1].rawBuffer.arr

\* C6: WriteBits(v, n) with n > 64 leaves the stream exactly as
\* WriteBits(v, 64) would: all 64 bits of v, MSB first.
C6_OverLengthIs64 ==
    (lastOp.op = "WriteBits" /\ lastOp.n > 64) =>
        /\ Cur = WriteBits(prev, lastOp.v, 64)
        /\ VisibleBits(Cur) = VisibleBits(prev) \o lastOp.v

\* WriteBits(v, 70) with a partial byte open
C6_Witness ==
    /\ lastOp.op = "WriteBits" /\ lastOp.n = 70
    /\ prev.os.pos \in 1..7
    /\ Length(Cur) = Length(prev) + 8

\* C7: WriteBits(v, 0) changes nothing: raw bytes, Len and pos stay.
C7_ZeroBitsNoOp ==
    (lastOp.op = "WriteBits" /\ lastOp.n = 0) =>
        /\ Cur = prev
        /\ Rawbytes(Cur) = Rawbytes(prev)
        /\ Length(Cur) = Length(prev)

\* WriteBits(v, 0) on a stream with a partial byte open
C7_Witness ==
    /\ lastOp.op = "WriteBits" /\ lastOp.n = 0
    /\ prev.os.pos \in 1..7
    /\ Length(prev) > 1

\* C10: a stream is Empty exactly when it was created or reset with an empty
\* buffer and nothing has been written since.
C10_EmptyIffNothingWritten ==
    \A i \in DOMAIN streams :
        LET m == Mach(i)
        IN  /\ Empty(m) <=> (resetBuf[i] = <<>> /\ written[i] = <<>>)
            /\ Empty(m) <=> Rawbytes(m) = <<(<<>>), 0>>

\* Empty again after writes, by Reset with an empty buffer
C10_Witness ==
    /\ lastOp.op = "Reset" /\ lastOp.v = <<>>
    /\ ~Empty(prev)
    /\ Empty(Cur)

\* C14: through NewOStream, Reset, the writes and Clone, 0 <= pos <= 8 and
\* pos = 0 exactly when the buffer is empty; once a bit has been written pos
\* is in 1..8 until a Reset with an empty buffer.
C14_PosRange ==
    \A i \in DOMAIN streams :
        LET m == Mach(i)
        IN  /\ m.os.pos \in 0..8
            /\ m.os.pos = 0 <=> Length(m) = 0
            /\ written[i] # <<>> => m.os.pos \in 1..8

\* a clone that has filled its last byte exactly, next to an empty original
C14_Witness ==
    /\ Len(streams) = 2
    /\ streams[2].pos = 8 /\ written[2] # <<>> /\ Len(written[2]) % 8 = 0
    /\ streams[1].pos = 0

CeilDiv8(k) == (k + 7) \div 8

\* C15: started empty, after k bits written Len = ceil(k/8) (a partly filled
\* last byte counts) and pos is 0 for k = 0, 8 for k a positive multiple of
\* 8, and k mod 8 otherwise.
C15_LenAndPos ==
    \A i \in DOMAIN streams :
        resetBuf[i] = <<>> =>
            LET k == Len(written[i])
                m == Mach(i)
            IN  /\ Length(m) = CeilDiv8(k)
                /\ m.os.pos = IF k = 0 THEN 0 ELSE IF k % 8 = 0 THEN 8 ELSE k % 8

\* 21 bits written by a WriteByte that split across two bytes: 3 bytes, pos 5
C15_Witness ==
    /\ lastOp.op = "WriteByte"
    /\ resetBuf[1] = <<>>
    /\ Len(written[1]) = 21
    /\ Length(Cur) = 3 /\ Cur.os.pos = 5

LastByte(m) == Rawbytes(m)[1][Length(m)]

\* C16: on a stream that was never cloned, whenever 0 < pos < 8 the bits
\* [pos, 8) of the last byte are zero.
C16_NoBitLeak ==
    \A i \in DOMAIN streams :
        LET m == Mach(i)
        IN  hasUnusedBits(m) => LastByte(m) % Pow2(8 - m.os.pos) = 0

\* a partial byte opened by splitting 0xFF, with ones before pos
C16_Witness ==
    /\ lastOp.op = "WriteByte" /\ lastOp.v = 255
    /\ hasUnusedBits(Cur)
    /\ LastByte(Cur) # 0

WriteOps == {"WriteBit", "WriteByte", "WriteBytes", "WriteBits"}

\* C17: a write never shortens the stream, leaves every byte before the last
\* one as it was, and changes the byte that was last only when a partial byte
\* was open, and then only in bit positions [pos, 8).
C17_AppendOnly ==
    lastOp.op \in WriteOps =>
        LET n == Length(prev)
            before == Rawbytes(prev)[1]
            after == Rawbytes(Cur)[1]
        IN  /\ Length(Cur) >= n
            /\ Take(after, n - 1) = Take(before, n - 1)
            /\ n > 0 =>
                   IF hasUnusedBits(prev)
                   THEN after[n] \div Pow2(8 - prev.os.pos)
                            = before[n] \div Pow2(8 - prev.os.pos)
                   ELSE after[n] = before[n]

\* a write that filled the open byte of a stream of at least two bytes
C17_Witness ==
    /\ lastOp.op \in WriteOps
    /\ Length(prev) >= 2 /\ hasUnusedBits(prev)
    /\ LastByte(prev) # Rawbytes(Cur)[1][Length(prev)]
    /\ Length(Cur) > Length(prev)

\* what WriteByte(v) does whatever the count of bits in the new byte
WriteByteFrame ==
    LET n == Length(prev)
        p == prev.os.pos
        v == lastOp.v
        after == Rawbytes(Cur)[1]
    IN  /\ Length(Cur) = n + 1
        /\ Take(after, n - 1) = Take(Rawbytes(prev)[1], n - 1)
        /\ IF hasUnusedBits(prev)
           THEN /\ Cur.os.pos = p
                /\ BitsOfByte(after[n])
                       = Take(BitsOfByte(LastByte(prev)), p) \o Take(BitsOfByte(v), 8 - p)
           ELSE /\ Cur.os.pos = 8
                /\ after[n + 1] = v
                /\ n > 0 => after[n] = LastByte(prev)

\* C18 as stated: with a partial byte open, the head of the appended byte
\* holds the remaining 8-pos bits of v.
C18_NewByteHolds8MinusPos ==
    lastOp.op = "WriteByte" =>
        /\ WriteByteFrame
        /\ hasUnusedBits(prev) =>
               Take(BitsOfByte(LastByte(Cur)), 8 - prev.os.pos)
                   = SubSeq(BitsOfByte(lastOp.v), prev.os.pos + 1, 8)

\* C18 amended: with a partial byte open (0 < pos < 8) WriteByte(v) fills bits
\* [pos, 8) of the open byte with the top 8-pos bits of v and appends one byte
\* whose head holds the remaining pos bits of v (the rest zero), pos unchanged
\* and Len one more; with none open it appends v verbatim and pos is 8.
C18_WriteByteSplit ==
    lastOp.op = "WriteByte" =>
        /\ WriteByteFrame
        /\ hasUnusedBits(prev) =>
               BitsOfByte(LastByte(Cur))
                   = SubSeq(BitsOfByte(lastOp.v), 9 - prev.os.pos, 8)
                       \o [k \in 1..(8 - prev.os.pos) |-> 0]

\* WriteByte(0xA5) at pos 3: five bits go to the open byte, three to the new one
C18_Witness ==
    /\ lastOp.op = "WriteByte" /\ lastOp.v = 165
    /\ prev.os.pos = 3 /\ Cur.os.pos = 3
    /\ LastByte(Cur) = 160

\* C19: WriteBit(v) writes only the lowest bit of v: it leaves the stream as
\* WriteBit(v mod 2) would; with no partial byte open it appends a byte with
\* that bit on top and pos becomes 1, else it ORs the bit in at offset pos,
\* pos grows by 1 and Len stays.
C19_LowestBitOnly ==
    lastOp.op = "WriteBit" =>
        LET n == Length(prev)
            p == prev.os.pos
            b == lastOp.v % 2
            after == Rawbytes(Cur)[1]
        IN  /\ Cur = WriteBit(prev, b)
            /\ IF hasUnusedBits(prev)
               THEN /\ Length(Cur) = n
                    /\ Cur.os.pos = p + 1
                    /\ after[n] = Or8(LastByte(prev), b * Pow2(7 - p))
               ELSE /\ Length(Cur) = n + 1
                    /\ Cur.os.pos = 1
                    /\ after[n + 1] = b * 128
            /\ Take(after, n - 1) = Take(Rawbytes(prev)[1], n - 1)

\* WriteBit(2) into an open byte: a zero bit
C19_Witness ==
    /\ lastOp.op = "WriteBit" /\ lastOp.v = 2
    /\ hasUnusedBits(prev) /\ LastByte(prev) # 0
    /\ LastByte(Cur) = LastByte(prev)
    /\ Cur.os.pos = prev.os.pos + 1

\* C20: WriteBits(v, numBits) with numBits < 0 writes nothing: raw bytes, Len
\* and pos stay.
C20_NegativeCountNoOp ==
    (lastOp.op = "WriteBits" /\ lastOp.n < 0) =>
        /\ Cur = prev
        /\ Rawbytes(Cur) = Rawbytes(prev)
        /\ VisibleBits(Cur) = VisibleBits(prev)

\* WriteBits(v, -8) with a partial byte open
C20_Witness ==
    /\ lastOp.op = "WriteBits" /\ lastOp.n = -8
    /\ hasUnusedBits(prev)
    /\ Length(prev) > 1

----------------------------------------------------------------------------
(* Properties of the options *)

Valid(o) ==
    /\ GetBufferPast(o) < GetBlockSize(o)
    /\ GetBufferFuture(o) < GetBlockSize(o)
    /\ GetBlockSize(o) > 0 /\ GetBufferPast(o) > 0 /\ GetBufferFuture(o) > 0
    /\ GetBufferDrain(o) > 0 /\ GetRetentionPeriod(o) > 0

\* C8: no options value handed back by NewDatabaseOptions or a setter has
\* bufferPast >= blockSize, bufferFuture >= blockSize or a non-positive
\* duration (the invalid construction is refused instead).
C8_InvalidRejected == \A p \in held : Valid(opts[p])

SetterField ==
    [BlockSize |-> "blockSize", BufferFuture |-> "bufferFuture",
     BufferPast |-> "bufferPast", BufferDrain |-> "bufferDrain",
     RetentionPeriod |-> "retentionPeriod", MaxFlushRetries |-> "maxFlushRetries",
     BufferBucketAllocSize |-> "bufferBucketAllocSize",
     DatabaseBlockAllocSize |-> "databaseBlockAllocSize"]

Getter(op, o) ==
    CASE op = "BlockSize" -> GetBlockSize(o)
      [] op = "BufferFuture" -> GetBufferFuture(o)
      [] op = "BufferPast" -> GetBufferPast(o)
      [] op = "BufferDrain" -> GetBufferDrain(o)
      [] op = "RetentionPeriod" -> GetRetentionPeriod(o)
      [] op = "MaxFlushRetries" -> GetMaxFlushRetries(o)
      [] op = "BufferBucketAllocSize" -> GetBufferBucketAllocSize(o)
      [] op = "DatabaseBlockAllocSize" -> GetDatabaseBlockAllocSize(o)

SetterEffect ==
    lastSet' # lastSet =>
        /\ \A k \in DOMAIN opts : opts'[k] = opts[k]
        /\ lastSet'.op \in DOMAIN SetterField =>
               LET r == opts'[lastSet'.result]
                   o == opts[lastSet'.recv]
                   f == SetterField[lastSet'.op]
               IN  /\ lastSet'.result \notin DOMAIN opts
                   /\ Getter(lastSet'.op, r) = lastSet'.value
                   /\ \A g \in DOMAIN o \ {f} : r[g] = o[g]
                   /\ \A op \in DOMAIN SetterField \ {lastSet'.op} :
                          Getter(op, r) = Getter(op, o)

\* C9: a setter returns a new options value whose named field is the given
\* value and whose other fields are the receiver's, and changes no options
\* value that existed before the call (the receiver included).
C9_SettersCopy == [][SetterEffect]_vars

\* BufferPast(150) on the result of BlockSize(5): the chain's result has both,
\* the values before it in the chain keep theirs
C9_Witness ==
    /\ lastSet.op = "BufferPast" /\ lastSet.value = 150
    /\ lastSet.result \in DOMAIN opts /\ lastSet.recv \in DOMAIN opts
    /\ GetBufferPast(opts[lastSet.result]) = 150
    /\ GetBlockSize(opts[lastSet.result]) = 5
    /\ GetBufferPast(opts[lastSet.recv]) = defaultBufferPast
    /\ GetBlockSize(opts[lastSet.recv]) = 5
    /\ \E p \in held : GetBlockSize(opts[p]) = defaultBlockSize

----------------------------------------------------------------------------
(* Properties of the series buffer *)

InWindow(t) == t >= now - cfg.bufferPast /\ t <= now + cfg.bufferFuture
Floor(t, size) == t - (t % size)

\* C11: a point with timestamp t is accepted iff
\* now - bufferPast <= t <= now + bufferFuture (so t = now is accepted, one
\* past either edge is rejected); a rejected point creates no block, an
\* accepted one is buffered under floor(t, blockSize).
C11_AcceptanceWindow ==
    lastEv.op = "Write" =>
        LET t == lastEv.t
            st == Floor(t, cfg.blockSize)
        IN  /\ lastEv.accepted <=> InWindow(t)
            /\ t = now => lastEv.accepted
            /\ t \in {now - cfg.bufferPast - 1, now + cfg.bufferFuture + 1}
                   => ~lastEv.accepted
            /\ ~lastEv.accepted => blocks = prevBlocks
            /\ lastEv.accepted =>
                   /\ st \in DOMAIN blocks
                   /\ blocks[st].points # <<>>
                   /\ blocks[st].points[Len(blocks[st].points)] = t
                   /\ \A x \in DOMAIN blocks \ {st} :
                          x \in DOMAIN prevBlocks /\ blocks[x] = prevBlocks[x]
                   /\ DOMAIN prevBlocks \subseteq DOMAIN blocks

\* a point one past the past edge is refused while an earlier one is buffered
C11_Witness ==
    /\ lastEv.op = "Write" /\ ~lastEv.accepted
    /\ lastEv.t = now - cfg.bufferPast - 1
    /\ blocks # <<>> /\ blocks = prevBlocks
    /\ Floor(lastEv.t, cfg.blockSize) \notin DOMAIN blocks

RECURSIVE Flatten(_)
Flatten(layers) ==
    IF layers = <<>> THEN <<>> ELSE Head(layers) \o Flatten(Tail(layers))

\* C12: a failed drain leaves the block as it was (open, points intact, no
\* partial layer sealed), at most maxFlushRetries attempts are counted, a
\* later successful drain seals all buffered points; no accepted point of a
\* held block is ever lost.
C12_DrainKeepsData ==
    /\ DOMAIN buffered = DOMAIN blocks
    /\ \A st \in DOMAIN blocks :
           /\ Flatten(blocks[st].sealed) \o blocks[st].points = buffered[st]
           /\ blocks[st].failures \in 0..cfg.maxFlushRetries
           /\ blocks[st].state = "open" <=> blocks[st].sealed = <<>>
    /\ lastEv.op = "DrainFail" =>
           LET b == blocks[lastEv.start]
               o == prevBlocks[lastEv.start]
           IN  /\ b.state = o.state /\ b.points = o.points /\ b.sealed = o.sealed
               /\ b.points # <<>>
               /\ b.failures >= 1
    /\ lastEv.op = "DrainOk" =>
           LET b == blocks[lastEv.start]
               o == prevBlocks[lastEv.start]
           IN  /\ b.state = "sealed" /\ b.points = <<>>
               /\ b.sealed = Append(o.sealed, o.points)

\* the default three failed attempts, then a drain that seals the open block
C12_Witness ==
    /\ lastEv.op = "DrainOk"
    /\ cfg.maxFlushRetries = defaultMaxFlushRetries
    /\ prevBlocks[lastEv.start].failures = defaultMaxFlushRetries
    /\ prevBlocks[lastEv.start].state = "open"
    /\ blocks[lastEv.start].state = "sealed"
    /\ blocks[lastEv.start].sealed = <<buffered[lastEv.start]>>

\* C13: a sweep evicts a sealed block iff now - start > retentionPeriod,
\* read or not; every other block stays as it was.
C13_EvictionBoundary ==
    lastEv.op = "Sweep" =>
        /\ DOMAIN blocks \subseteq DOMAIN prevBlocks
        /\ \A st \in DOMAIN prevBlocks :
               /\ st \notin DOMAIN blocks <=>
                      (prevBlocks[st].state = "sealed" /\ now - st > cfg.retentionPeriod)
               /\ st \in DOMAIN blocks => blocks[st] = prevBlocks[st]

\* a sealed block that was never read, evicted one minute past retention
C13_Witness ==
    /\ lastEv.op = "Sweep"
    /\ \E st \in DOMAIN prevBlocks :
           /\ st \notin DOMAIN blocks
           /\ now - st = cfg.retentionPeriod + 1
           /\ ~prevBlocks[st].read

====
